---- MODULE Spec2Model ----
(***************************************************************************)
(* Model of the savbes chat widget.                                        *)
(*                                                                         *)
(*   "script" variant : src/static/js.js      (self-installing widget)     *)
(*   "inline" variant : src/templates/index.html (page-embedded widget)    *)
(*                                                                         *)
(* Strings are sequences of tokens.  A token is an ordinary character      *)
(* ("a", "N", "e", ","), a white-space character (" ", "\n"), the markup   *)
(* "<br>", a phone-number shaped substring ("+7") or the 19-character      *)
(* literal "[SHOW_CONTACT_FORM]" taken as one token.                       *)
(***************************************************************************)
EXTENDS Integers, Sequences, FiniteSets, TLC

\* ------------------------------------------------------------------ bounds
\* Total number of requests the environment lets the widget send.
MaxSends == 2

\* ------------------------------------------------------- program constants
SENTINEL == "[SHOW_CONTACT_FORM]"
NL == "\n"
BR == "<br>"
SP == " "
PHONE == "+7"
FORM_DELAY == 500
\* granularity of the model's clock, in ms
TICK == 500

WELCOME == <<"welcome">>
\* js.js:564, js.js:568, index.html:256, js.js:366
ERR_FORMAT == <<"error-processing-response">>
ERR_LATER == <<"error-try-later">>
ERR_AGAIN == <<"error-try-again">>
REFUSAL == <<"no-contacts">>

\* --------------------------------------------------------- string helpers
WhiteSpace == {SP, NL}

RECURSIVE TrimStart(_)
TrimStart(s) ==
    IF s # <<>> /\ Head(s) \in WhiteSpace THEN TrimStart(Tail(s)) ELSE s

RECURSIVE TrimEnd(_)
TrimEnd(s) ==
    IF s # <<>> /\ s[Len(s)] \in WhiteSpace
    THEN TrimEnd(SubSeq(s, 1, Len(s) - 1))
    ELSE s

\* the input taken as it is, untrimmed
TrimForgotten(s) == s

\* String.prototype.trim
Trim(s) == TrimEnd(TrimStart(s))

\* String.prototype.includes(tok)
Includes(s, tok) == \E i \in 1..Len(s) : s[i] = tok

\* s.includes(sub) for a non-empty string sub
IncludesStr(s, sub) ==
    \E i \in 1..(Len(s) - Len(sub) + 1) : SubSeq(s, i, i + Len(sub) - 1) = sub

\* message.replace(/\n/g, '<br>') : every newline
ReplaceAllNL(s) == [i \in 1..Len(s) |-> IF s[i] = NL THEN BR ELSE s[i]]

\* message.replace("[SHOW_CONTACT_FORM]", "") : a string pattern replaces the
\* first occurrence only
RECURSIVE ReplaceFirst(_, _)
ReplaceFirst(s, tok) ==
    IF s = <<>> THEN <<>>
    ELSE IF Head(s) = tok THEN Tail(s)
    ELSE <<Head(s)>> \o ReplaceFirst(Tail(s), tok)

Count(s, tok) == Cardinality({i \in 1..Len(s) : s[i] = tok})

\* --------------------------------------------------------------- JS values
\* A JS value: t is its type tag; s the string value (or, for an object, the
\* value of its text property when hasText); n the numeric value.
JSUndefined == [t |-> "undefined", s |-> <<>>, n |-> 0, hasText |-> FALSE]
JSNull == [t |-> "null", s |-> <<>>, n |-> 0, hasText |-> FALSE]
JSString(x) == [t |-> "string", s |-> x, n |-> 0, hasText |-> FALSE]
JSNumber(k) == [t |-> "number", s |-> <<>>, n |-> k, hasText |-> FALSE]
JSObjText(x) == [t |-> "object", s |-> x, n |-> 0, hasText |-> TRUE]
JSObjNoText == [t |-> "object", s |-> <<>>, n |-> 0, hasText |-> FALSE]

\* ToBoolean
Truthy(v) ==
    CASE v.t = "undefined" -> FALSE
      [] v.t = "null" -> FALSE
      [] v.t = "string" -> v.s # <<>>
      [] v.t = "number" -> v.n # 0
      [] OTHER -> TRUE

\* typeof v === 'object'
TypeofObject(v) == v.t \in {"object", "null"}

\* v.text for an object v
TextOf(v) == IF v.t = "object" /\ v.hasText THEN JSString(v.s) ELSE JSUndefined

\* Number.prototype.toString, for the numbers the model uses
Numeral(n) == IF n = 0 THEN "0" ELSE "5"

\* conversion of a value assigned to Node.textContent (a nullable DOMString)
ToDOMString(v) ==
    CASE v.t = "undefined" -> <<>>
      [] v.t = "null" -> <<>>
      [] v.t = "string" -> v.s
      [] v.t = "number" -> <<Numeral(v.n)>>
      [] OTHER -> <<"[object Object]">>

\* ------------------------------------------------------------------ state
VARIABLES
    variant,         \* "script" (js.js) or "inline" (index.html)
    readyState,      \* document.readyState
    dclFired,        \* DOMContentLoaded has been dispatched
    scriptRan,       \* the widget script's top level has executed
    dclListeners,    \* listeners registered for DOMContentLoaded, in order
    containerPresent,\* #savbes-chat-container exists in the host page
    containerInForm, \* ... and lies inside a <form> of the host page
    styles,          \* number of <style> elements the script appended to head
    blocks,          \* number of .savbes-chat-block elements in the container
    initRuns,        \* number of times initChat has run
    closures,        \* one per initChat run that got past the container check
    clickHandlers,   \* click listeners of the (first) send button, by closure
    keyHandlers,     \* keypress listeners of the (first) input field
    input,           \* value of the (first) message input field
    transcript,      \* message nodes of the (first) messages container
    forms,           \* contact overlays in the messages container, in order
    nforms,          \* overlays created so far
    timers,          \* pending setTimeout(showContactForm, 500) calls
    requests,        \* fetches in flight
    sent,            \* every fetch issued so far, in order
    hostFields,      \* values of the host page's own inputs
    localStorage,    \* value under the key savbes_phone ("" when unset)
    chatOpen,        \* inline variant: chat window is not hidden
    budget,          \* number of requests the visitor will cause at most
    last             \* the event handled by the last step

vars == <<variant, readyState, dclFired, scriptRan, dclListeners,
          containerPresent, containerInForm, styles, blocks, initRuns,
          closures, clickHandlers, keyHandlers, input, transcript, forms, nforms,
          timers, requests, sent, hostFields, localStorage, chatOpen, budget,
          last>>

pageVars == <<variant, containerPresent, containerInForm, budget>>
lifeVars == <<readyState, dclFired, scriptRan, dclListeners>>
initVars == <<styles, blocks, closures, clickHandlers, keyHandlers>>


\* ------------------------------------------------------------ input spaces
\* Math.random().toString(36).substring(2, 15): an opaque string.  Only
\* equality of two ids is ever observed, so the first draw of a page load is
\* named "s1" and a later draw either repeats an earlier id or is fresh.
SessionIds(drawn) == IF drawn = 0 THEN {"s1"} ELSE {"s1", "s2"}

\* what a visitor types into the message field
InputTexts ==
    IF variant = "script"
    THEN {<<>>, <<SP>>, <<SP, "a", SP>>, <<SENTINEL>>}
    ELSE {<<>>, <<SP>>, <<"a">>, <<SP, PHONE>>}

\* what the inputs of a contact overlay hold when a handler reads them: what
\* the visitor has left in them
Entry(name, phone, email) == [name |-> name, phone |-> phone, email |-> email]
FormEntries ==
    { Entry(<<>>, <<>>, <<>>),
      Entry(<<"N">>, <<>>, <<"e">>),
      Entry(<<>>, <<SP>>, <<>>),
      Entry(<<>>, <<PHONE>>, <<>>),
      Entry(<<"N">>, <<PHONE>>, <<"e">>) }

\* how a fetch ends: it rejects, its body is no JSON, or its body parses to
\* null or to an object whose response property is the given value
Outcome(k, isNull, v) == [kind |-> k, isNull |-> isNull, response |-> v]
NoOutcome == Outcome("none", FALSE, JSUndefined)

StringBodies ==
    {<<>>, <<"a", NL, "a">>, <<"a", NL, SENTINEL>>, <<SENTINEL, SENTINEL>>}
TextBodies == {<<>>, <<"a">>}

\* every shape of reply
AllOutcomes ==
    { Outcome("reject", FALSE, JSUndefined),
      Outcome("badjson", FALSE, JSUndefined),
      Outcome("json", TRUE, JSUndefined) }
    \cup { Outcome("json", FALSE, v) :
             v \in {JSUndefined, JSNull, JSNumber(5), JSObjNoText} }
    \cup { Outcome("json", FALSE, JSString(x)) : x \in StringBodies }
    \cup { Outcome("json", FALSE, JSObjText(x)) : x \in TextBodies }

\* the replies of an ordinary conversation: a failed fetch, a body that is
\* no JSON, a body without a response, a reply with the sentinel and a reply
\* in the nested format
PlainOutcomes ==
    { Outcome("reject", FALSE, JSUndefined),
      Outcome("badjson", FALSE, JSUndefined),
      Outcome("json", FALSE, JSUndefined),
      Outcome("json", FALSE, JSString(<<"a", NL, SENTINEL>>)),
      Outcome("json", FALSE, JSObjText(<<"a">>)) }

\* --------------------------------------------------------- the host page
\* An input element: where it sits and the attributes the selectors read.
\* Attribute values are transliterated; AttrContains lists which of them
\* contain which of the substrings the [attr*="..."] selectors ask for.
InputEl(id, inForm, inWidget, type, name, placeholder) ==
    [id |-> id, inForm |-> inForm, inWidget |-> inWidget, type |-> type,
     name |-> name, placeholder |-> placeholder]

\* the form #contactForm of the page
ContactFormInputs ==
    << InputEl("name", TRUE, FALSE, "text", "name", "Vashe imya"),
       InputEl("phone", TRUE, FALSE, "tel", "phone", "Vash telefon"),
       InputEl("email", TRUE, FALSE, "email", "email", "Vash email") >>

\* the inputs of the host page: the page's contact form and, for the script
\* variant, one call-back field that stands outside every form
HostInputs ==
    IF variant = "inline" THEN ContactFormInputs
    ELSE ContactFormInputs \o
         << InputEl("callback", FALSE, FALSE, "text", "callback_phone", "") >>

HostIds == {HostInputs[i].id : i \in 1..Len(HostInputs)}
HostEl(id) == HostInputs[CHOOSE i \in 1..Len(HostInputs) : HostInputs[i].id = id]

\* the three inputs of a contact overlay
OverlayInput(field) ==
    CASE field = "name" ->
           InputEl("savbes-name-input", containerInForm, TRUE, "text", "", "Vashe imya")
      [] field = "phone" ->
           InputEl("savbes-phone-input", containerInForm, TRUE, "tel", "", "Vash telefon")
      [] OTHER ->
           InputEl("savbes-email-input", containerInForm, TRUE, "email", "",
                   "Vash email (optsionalno)")

\* the message field of the chat block
MessageInput ==
    InputEl("savbes-user-input", containerInForm, TRUE, "text", "",
            "Vvedite vashe soobshchenie...")

AttrContains(v, sub) ==
    <<v, sub>> \in
      { <<"phone", "phone">>, <<"callback_phone", "phone">>,
        <<"name", "name">>, <<"email", "email">>,
        <<"Vash telefon", "elefon">>,
        <<"Vashe imya", "imya">>, <<"Vashe imya", "mya">>,
        <<"Vash email", "mail">>, <<"Vash email (optsionalno)", "mail">> }

\* selectors of the pass over the page's forms
PhoneInForm(el) ==
    \/ el.type = "tel"
    \/ el.name = "phone"
    \/ AttrContains(el.name, "PHONE")
    \/ AttrContains(el.placeholder, "elefon")
NameInForm(el) ==
    \/ el.name = "name"
    \/ AttrContains(el.name, "NAME")
    \/ AttrContains(el.placeholder, "imya")
    \/ AttrContains(el.placeholder, "Imya")
EmailInForm(el) ==
    \/ el.type = "email"
    \/ el.name = "email"
    \/ AttrContains(el.name, "EMAIL")
    \/ AttrContains(el.placeholder, "mail")
    \/ AttrContains(el.placeholder, "Mail")

\* selectors of the pass over the inputs outside forms
PhoneLoose(el) ==
    \/ el.type = "tel"
    \/ AttrContains(el.name, "phone")
    \/ AttrContains(el.placeholder, "elefon")
NameLoose(el) ==
    \/ AttrContains(el.name, "name")
    \/ AttrContains(el.placeholder, "mya")
EmailLoose(el) ==
    \/ el.type = "email"
    \/ AttrContains(el.name, "email")
    \/ AttrContains(el.placeholder, "mail")

\* contact data: name, phone, email, each a JS value
NoUserData == [name |-> JSNull, phone |-> JSNull, email |-> JSNull]

\* the value input el holds after fillPageForms(data), cur being its value
\* before.  An input inside a host form is reached through its form, which
\* is skipped only when the form itself lies inside the chat block (no form
\* does); an input outside forms is skipped when it lies inside the block.
FilledValue(el, cur, data) ==
    IF el.inForm
    THEN LET v1 == IF Truthy(data.phone) /\ PhoneInForm(el) THEN data.phone.s ELSE cur
             v2 == IF Truthy(data.name) /\ NameInForm(el) THEN data.name.s ELSE v1
         IN IF Truthy(data.email) /\ EmailInForm(el) THEN data.email.s ELSE v2
    ELSE IF el.inWidget THEN cur
    ELSE LET v1 == IF Truthy(data.phone) /\ PhoneLoose(el) THEN data.phone.s ELSE cur
             v2 == IF Truthy(data.name) /\ NameLoose(el) THEN data.name.s ELSE v1
         IN IF Truthy(data.email) /\ EmailLoose(el) THEN data.email.s ELSE v2

\* ------------------------------------------------ the mutable page state
\* The operators below thread a record st of the state a handler can touch.
Cur ==
    [transcript |-> transcript, input |-> input, requests |-> requests,
     sent |-> sent, timers |-> timers, forms |-> forms, nforms |-> nforms,
     closures |-> closures, hostFields |-> hostFields,
     localStorage |-> localStorage, calls |-> <<>>, filled |-> {}]

\* Cur with the overlays' inputs holding vals: overlay id -> entry
CurWith(vals) == [fields |-> vals] @@ Cur

Commit(st) ==
    /\ transcript' = st.transcript
    /\ input' = st.input
    /\ requests' = st.requests
    /\ sent' = st.sent
    /\ timers' = st.timers
    /\ forms' = st.forms
    /\ nforms' = st.nforms
    /\ closures' = st.closures
    /\ hostFields' = st.hostFields
    /\ localStorage' = st.localStorage

\* a message node; req is the number of the request it belongs to (0: none)
Msg(origin, content, req) == [origin |-> origin, content |-> content, req |-> req]
Origin(isUser) == IF isUser THEN "user" ELSE "assistant"

\* a pending fetch
Request(id, message, sid, c) ==
    [id |-> id, message |-> message, session_id |-> sid, closure |-> c]

\* ------------------------------------------------ script variant (js.js)
\* an addMessage that sets the container's content instead of appending to it
addMessageOverwriting(st, c, message, isUser, req) ==
    [st EXCEPT !.transcript = <<Msg(Origin(isUser), ReplaceAllNL(message), req)>>]

\* addMessage(message, isUser), called with a string
addMessage(st, c, message, isUser, req) ==
    LET formattedMessage == ReplaceAllNL(message)
    IN  IF ~isUser /\ Includes(message, SENTINEL)
        THEN LET cleanMessage == ReplaceFirst(message, SENTINEL)
             IN [st EXCEPT
                   !.transcript = Append(@, Msg(Origin(isUser), cleanMessage, req)),
                   !.timers = Append(@, [closure |-> c, left |-> FORM_DELAY])]
        ELSE [st EXCEPT
                !.transcript = Append(@, Msg(Origin(isUser), formattedMessage, req))]

\* sendMessage without the line that empties the input field
sendMessageKeepingInput(st, c, message) ==
    LET s0 == [st EXCEPT !.calls = Append(@, message)]
    IN  IF Trim(message) = <<>> THEN s0
        ELSE LET id == Len(s0.sent) + 1
                 request == Request(id, message, s0.closures[c].sessionId, c)
                 s1 == addMessage(s0, c, message, TRUE, id)
             IN [s1 EXCEPT
                   !.requests = @ \cup {request},
                   !.sent = Append(@, request)]

\* a sendMessage that aborts the requests still in flight before it sends
sendMessageAbortingEarlier(st, c, message) ==
    LET s0 == [st EXCEPT !.calls = Append(@, message)]
    IN  IF Trim(message) = <<>> THEN s0
        ELSE LET id == Len(s0.sent) + 1
                 request == Request(id, message, s0.closures[c].sessionId, c)
                 s1 == addMessage(s0, c, message, TRUE, id)
             IN [s1 EXCEPT
                   !.input = <<>>,
                   !.requests = {request},
                   !.sent = Append(@, request)]

\* sendMessage(message) up to the point where the fetch is issued; calls
\* records the argument of every call
sendMessage(st, c, message) ==
    LET s0 == [st EXCEPT !.calls = Append(@, message)]
    IN  IF Trim(message) = <<>> THEN s0
        ELSE LET id == Len(s0.sent) + 1
                 request == Request(id, message, s0.closures[c].sessionId, c)
                 s1 == addMessage(s0, c, message, TRUE, id)
             IN [s1 EXCEPT
                   !.input = <<>>,
                   !.requests = @ \cup {request},
                   !.sent = Append(@, request)]

\* a catch block that logs the error and shows nothing
catchErrorSwallowed(st, c, req) == st

\* the catch block of sendMessage
catchError(st, c, req) == addMessage(st, c, ERR_LATER, FALSE, req)

\* sendMessage after the fetch has settled with outcome o.  addMessage
\* throws a TypeError (message.replace is not a function) before it touches
\* the document when its argument is no string; the catch block takes over.
onSettled(st, c, req, o) ==
    IF o.kind # "json" THEN catchError(st, c, req)
    ELSE IF ~o.isNull /\ Truthy(o.response)
    THEN LET arg == IF TypeofObject(o.response) /\ Truthy(TextOf(o.response))
                    THEN TextOf(o.response)
                    ELSE o.response
         IN IF arg.t = "string"
            THEN addMessage(st, c, arg.s, FALSE, req)
            ELSE catchError(st, c, req)
    ELSE addMessage(st, c, ERR_FORMAT, FALSE, req)

\* fillPageForms(data): the host page's inputs and, through a host form that
\* encloses the container, the inputs of the overlays still in the document;
\* filled records the overlays an input of which has got a new value
fillPageForms(st, data) ==
    LET after(id) ==
          Entry(FilledValue(OverlayInput("name"), st.fields[id].name, data),
                FilledValue(OverlayInput("phone"), st.fields[id].phone, data),
                FilledValue(OverlayInput("email"), st.fields[id].email, data))
        open == {st.forms[i].id : i \in 1..Len(st.forms)}
    IN [st EXCEPT
          !.hostFields =
              [id \in HostIds |-> FilledValue(HostEl(id), st.hostFields[id], data)],
          !.input = FilledValue(MessageInput, @, data),
          !.fields = [id \in DOMAIN st.fields |->
                         IF id \in open THEN after(id) ELSE st.fields[id]],
          !.filled = @ \cup {id \in open : after(id) # st.fields[id]}]

\* showContactForm(): the overlay goes to the end of the messages container;
\* its Enter listener goes to the element getElementById('savbes-phone-input')
\* finds, the phone input of the first overlay in the document
showContactForm(st, c) ==
    LET id == st.nforms + 1
        formDiv == [id |-> id, closure |-> c, enter |-> <<>>]
        fs == Append(st.forms, formDiv)
    IN [st EXCEPT
          !.nforms = id,
          !.forms = [fs EXCEPT ![1].enter = Append(@, [form |-> id, closure |-> c])]]

\* formDiv.remove()
RemoveForm(fs, id) == SelectSeq(fs, LAMBDA f : f.id # id)
HasForm(fs, id) == \E i \in 1..Len(fs) : fs[i].id = id

ContactText(name, phone, email) ==
    (IF name # <<>> THEN name \o <<",", SP>> ELSE <<>>)
    \o phone
    \o (IF email # <<>> THEN <<",", SP>> \o email ELSE <<>>)

\* submitContactForm(formDiv): the three values come from the elements the
\* ids resolve to, those of the first overlay in the document; with no
\* overlay in the document the first lookup throws and the handler ends
submitContactForm(st, c, formId) ==
    IF st.forms = <<>> THEN st
    ELSE LET name == st.fields[st.forms[1].id].name
             phone == st.fields[st.forms[1].id].phone
             email == st.fields[st.forms[1].id].email
         IN IF phone # <<>>
            THEN LET s1 == [st EXCEPT !.forms = RemoveForm(@, formId)]
                     userData == [name |-> JSString(name), phone |-> JSString(phone),
                                  email |-> JSString(email)]
                     s2 == [s1 EXCEPT !.closures[c].userData = userData]
                     s3 == fillPageForms(s2, userData)
                 IN sendMessage(s3, c, ContactText(name, phone, email))
            ELSE st

\* a Cancel listener that removes the overlay and says nothing
cancelSilently(st, c, formId) == [st EXCEPT !.forms = RemoveForm(@, formId)]

\* the Cancel listener of an overlay
cancelContactForm(st, c, formId) ==
    sendMessage([st EXCEPT !.forms = RemoveForm(@, formId)], c, REFUSAL)

\* the click listener of the send button and the keypress listener of the
\* input field (key Enter), as registered by closure c
sendHandler(st, c) ==
    LET message == Trim(st.input)
    IN IF message # <<>> THEN sendMessage(st, c, message) ELSE st

\* a dispatch in which every listener finds the text the visitor typed
RECURSIVE DispatchWithText(_, _, _)
DispatchWithText(st, hs, t) ==
    IF hs = <<>> THEN st
    ELSE DispatchWithText(sendHandler([st EXCEPT !.input = t], Head(hs)), Tail(hs), t)
DispatchStaleInput(st, hs) == DispatchWithText(st, hs, st.input)

\* an event dispatched to listeners hs, which run in registration order
RECURSIVE Dispatch(_, _)
Dispatch(st, hs) ==
    IF hs = <<>> THEN st ELSE Dispatch(sendHandler(st, Head(hs)), Tail(hs))

\* key Enter in the phone input of an overlay: the listeners it carries
RECURSIVE DispatchEnter(_, _)
DispatchEnter(st, hs) ==
    IF hs = <<>> THEN st
    ELSE DispatchEnter(submitContactForm(st, Head(hs).closure, Head(hs).form), Tail(hs))

\* ------------------------------------------- inline variant (index.html)
\* phoneRegex.test(message) and message.match(phoneRegex)[0]
PhoneTest(message) == Includes(message, PHONE)
PhoneMatch(message) == <<PHONE>>

\* addMessage(text, isUser): the node's textContent
addMessageInline(st, text, isUser, req) ==
    [st EXCEPT !.transcript = Append(@, Msg(Origin(isUser), text, req))]

\* sendMessage() up to the point where the fetch is issued
sendMessageInline(st) ==
    LET message == Trim(st.input)
        s0 == [st EXCEPT !.calls = Append(@, st.input)]
    IN  IF message = <<>> THEN s0
        ELSE LET id == Len(s0.sent) + 1
                 request == Request(id, message, s0.closures[1].sessionId, 1)
                 s1 == addMessageInline(s0, message, TRUE, id)
             IN [s1 EXCEPT
                   !.input = <<>>,
                   !.requests = @ \cup {request},
                   !.sent = Append(@, request)]

\* the catch block of sendMessage
catchErrorInline(st, req) == addMessageInline(st, ERR_AGAIN, FALSE, req)

\* sendMessage() after the fetch has settled with outcome o; reading
\* data.response of a null body throws
onSettledInline(st, req, message, o) ==
    IF o.kind # "json" \/ o.isNull THEN catchErrorInline(st, req)
    ELSE LET s1 == addMessageInline(st, ToDOMString(o.response), FALSE, req)
         IN IF PhoneTest(message)
            THEN [s1 EXCEPT !.hostFields["phone"] = PhoneMatch(message),
                            !.localStorage = PhoneMatch(message)]
            ELSE s1

\* ------------------------------------------------------------------ events
\* What the last step handled.  req, outcome: the request that settled and
\* how; text: the text the visitor left in the message field, or the message
\* of the request that settled; form: the overlay acted on; own, first: what
\* the inputs of that overlay and of the first overlay in the document held;
\* calls: the arguments of the calls of sendMessage; filled: the overlays an
\* input of which autofill changed
NoEntry == Entry(<<>>, <<>>, <<>>)
Event(op) ==
    [op |-> op, req |-> 0, text |-> <<>>, outcome |-> NoOutcome, form |-> 0,
     own |-> NoEntry, first |-> NoEntry, calls |-> <<>>, filled |-> {}]

\* ------------------------------------------------------------------- Init
InitWith(n) ==
    /\ variant \in {"script", "inline"}
    /\ budget = n
    /\ readyState = "loading"
    /\ dclFired = FALSE
    /\ styles = 0
    /\ initRuns = 0
    /\ input = <<>>
    /\ forms = <<>>
    /\ nforms = 0
    /\ timers = <<>>
    /\ requests = {}
    /\ sent = <<>>
    /\ hostFields = [id \in HostIds |-> <<>>]
    /\ last = Event("load")
    /\ IF variant = "script"
       THEN /\ scriptRan = FALSE
            /\ dclListeners = <<>>
            /\ containerPresent \in BOOLEAN
            /\ containerInForm \in {b \in BOOLEAN : b => containerPresent}
            /\ blocks = 0
            /\ closures = <<>>
            /\ clickHandlers = <<>>
            /\ keyHandlers = <<>>
            /\ transcript = <<>>
            /\ localStorage = <<>>
            /\ chatOpen = TRUE
       ELSE /\ scriptRan = TRUE
            /\ dclListeners = <<"prefill">>
            /\ containerPresent = FALSE
            /\ containerInForm = FALSE
            /\ blocks = 1
            /\ \E sid \in SessionIds(0) :
                 closures = <<[sessionId |-> sid, userData |-> NoUserData]>>
            /\ clickHandlers = <<1>>
            /\ keyHandlers = <<1>>
            /\ transcript = <<Msg("assistant", WELCOME, 0)>>
            /\ localStorage \in {<<>>, <<PHONE>>}
            /\ chatOpen = FALSE

\* ------------------------------------------------ script initialisation
\* initChat without the check of the container
ContainerAssumed == TRUE

\* document.getElementById('savbes-chat-container') found the container
ContainerFound == containerPresent

\* initChat(), sessionId being the string Math.random yields.  The second
\* block of a second run repeats the ids of the first: every later lookup by
\* id resolves to the elements of the first block, whose messages container
\* is the transcript.
initChat(sessionId) ==
    /\ styles' = styles + 1
    /\ IF ~ContainerFound
       THEN UNCHANGED <<blocks, closures, clickHandlers, keyHandlers, transcript>>
       ELSE /\ blocks' = blocks + 1
            /\ closures' =
                 Append(closures, [sessionId |-> sessionId, userData |-> NoUserData])
            /\ clickHandlers' = Append(clickHandlers, Len(closures) + 1)
            /\ keyHandlers' = Append(keyHandlers, Len(closures) + 1)
            /\ transcript' =
                 IF blocks = 0 THEN <<Msg("assistant", WELCOME, 0)>> ELSE transcript

chatVars == <<input, forms, nforms, timers, requests, sent, hostFields,
              localStorage, chatOpen>>

\* the top level of js.js
RunScript ==
    /\ variant = "script"
    /\ ~scriptRan
    /\ scriptRan' = TRUE
    /\ dclListeners' = Append(dclListeners, "initChat")
    /\ IF readyState \in {"complete", "interactive"}
       THEN /\ \E sid \in SessionIds(Len(closures)) : initChat(sid)
            /\ initRuns' = initRuns + 1
       ELSE UNCHANGED <<initVars, initRuns, transcript>>
    /\ last' = Event("script")
    /\ UNCHANGED <<pageVars, readyState, dclFired, chatVars>>

\* the parser reaches the end of the document
ParseDone ==
    /\ readyState = "loading"
    /\ readyState' = "interactive"
    /\ last' = Event("parsed")
    /\ UNCHANGED <<pageVars, dclFired, scriptRan, dclListeners, initVars,
                   initRuns, transcript, chatVars>>

\* DOMContentLoaded is dispatched: initChat (js.js) or the listener that
\* puts the stored phone number into the page's form (index.html).  Once the
\* top level of js.js has run nothing reads readyState any more, and the load
\* event is taken to follow at once.
FireDCL ==
    /\ readyState = "interactive"
    /\ ~dclFired
    /\ dclFired' = TRUE
    /\ readyState' = IF scriptRan THEN "complete" ELSE "interactive"
    /\ IF dclListeners = <<"initChat">>
       THEN /\ \E sid \in SessionIds(Len(closures)) : initChat(sid)
            /\ initRuns' = initRuns + 1
            /\ UNCHANGED hostFields
       ELSE /\ UNCHANGED <<initVars, initRuns, transcript>>
            /\ hostFields' =
                 IF dclListeners = <<"prefill">> /\ localStorage # <<>>
                 THEN [hostFields EXCEPT !["phone"] = localStorage]
                 ELSE hostFields
    /\ last' = Event("dcl")
    /\ UNCHANGED <<pageVars, scriptRan, dclListeners, input, forms,
                   nforms, timers, requests, sent, localStorage, chatOpen>>

\* the load event: everything has been fetched
LoadComplete ==
    /\ readyState = "interactive"
    /\ dclFired
    /\ readyState' = "complete"
    /\ last' = Event("loaded")
    /\ UNCHANGED <<pageVars, dclFired, scriptRan, dclListeners, initVars,
                   initRuns, transcript, chatVars>>

\* ---------------------------------------------------------- chat actions
fixedVars == <<pageVars, lifeVars, styles, blocks, initRuns, clickHandlers,
               keyHandlers>>

\* The visitor, the server and the clock act on the loaded page: the end of
\* parsing, DOMContentLoaded and the load event come before the chat events.
LoadSettled == readyState = "complete"

\* the widget's input field and send button are there and visible
WidgetUsable == blocks >= 1 /\ chatOpen /\ LoadSettled

\* the visitor leaves text t in the input field and clicks the send button
ClickSend(t) ==
    /\ WidgetUsable
    /\ Len(sent) < budget
    /\ LET st0 == [Cur EXCEPT !.input = t]
           st == IF variant = "script" THEN Dispatch(st0, clickHandlers)
                 ELSE sendMessageInline(st0)
       IN /\ Commit(st)
          /\ last' = [Event("click") EXCEPT !.text = t, !.calls = st.calls]
    /\ UNCHANGED <<fixedVars, chatOpen>>

\* the visitor leaves text t in the input field and presses Enter in it
PressEnter(t) ==
    /\ WidgetUsable
    /\ Len(sent) < budget
    /\ LET st0 == [Cur EXCEPT !.input = t]
           st == IF variant = "script" THEN Dispatch(st0, keyHandlers)
                 ELSE sendMessageInline(st0)
       IN /\ Commit(st)
          /\ last' = [Event("enter") EXCEPT !.text = t, !.calls = st.calls]
    /\ UNCHANGED <<fixedVars, chatOpen>>

\* the fetch of request r settles with outcome o and sendMessage resumes
Resolve(r, o) ==
    /\ r \in requests
    /\ LoadSettled
    /\ LET st0 == [Cur EXCEPT !.requests = @ \ {r}]
           st == IF variant = "script" THEN onSettled(st0, r.closure, r.id, o)
                 ELSE onSettledInline(st0, r.id, r.message, o)
       IN /\ Commit(st)
          /\ last' = [Event("settle") EXCEPT !.req = r.id, !.text = r.message,
                                            !.outcome = o]
    /\ UNCHANGED <<fixedVars, chatOpen>>

\* TICK ms pass
Tick ==
    /\ \E i \in 1..Len(timers) : timers[i].left > 0
    /\ LoadSettled
    /\ timers' = [i \in 1..Len(timers) |->
                    [timers[i] EXCEPT !.left = IF @ > TICK THEN @ - TICK ELSE 0]]
    /\ last' = Event("tick")
    /\ UNCHANGED <<fixedVars, closures, input, transcript, forms, nforms, requests,
                   sent, hostFields, localStorage, chatOpen>>

\* a timer may run once its delay has elapsed
TimerDue(t) == t.left = 0

\* the oldest timer runs showContactForm
TimerFire ==
    /\ timers # <<>>
    /\ TimerDue(Head(timers))
    /\ LoadSettled
    /\ LET st == showContactForm([Cur EXCEPT !.timers = Tail(@)], Head(timers).closure)
       IN /\ Commit(st)
          /\ last' = [Event("timer") EXCEPT !.form = st.nforms]
    /\ UNCHANGED <<fixedVars, chatOpen>>

\* the overlays in the document and what their inputs may hold
FormIds == {forms[i].id : i \in 1..Len(forms)}
FieldValues == [FormIds -> FormEntries]

\* the overlays' inputs holding vals, the visitor clicks the submit button of
\* the i-th overlay
ClickSubmit(i, vals) ==
    /\ i \in 1..Len(forms)
    /\ LoadSettled
    /\ Len(sent) < budget
    /\ LET st == submitContactForm(CurWith(vals), forms[i].closure, forms[i].id)
       IN /\ Commit(st)
          /\ last' = [Event("submit") EXCEPT
                       !.form = forms[i].id, !.own = vals[forms[i].id],
                       !.first = vals[forms[1].id], !.calls = st.calls,
                       !.filled = st.filled]
    /\ UNCHANGED <<fixedVars, chatOpen>>

\* the overlays' inputs holding vals, the visitor presses Enter in the phone
\* input of the i-th overlay
EnterInPhone(i, vals) ==
    /\ i \in 1..Len(forms)
    /\ LoadSettled
    /\ forms[i].enter # <<>>
    /\ Len(sent) + Len(forms[i].enter) <= budget
    /\ LET st == DispatchEnter(CurWith(vals), forms[i].enter)
       IN /\ Commit(st)
          /\ last' = [Event("enterphone") EXCEPT
                       !.form = forms[i].id, !.own = vals[forms[i].id],
                       !.first = vals[forms[1].id], !.calls = st.calls,
                       !.filled = st.filled]
    /\ UNCHANGED <<fixedVars, chatOpen>>

\* the visitor clicks the cancel button of the i-th overlay
ClickCancel(i) ==
    /\ i \in 1..Len(forms)
    /\ LoadSettled
    /\ Len(sent) < budget
    /\ LET st == cancelContactForm(Cur, forms[i].closure, forms[i].id)
       IN /\ Commit(st)
          /\ last' = [Event("cancel") EXCEPT !.form = forms[i].id, !.calls = st.calls]
    /\ UNCHANGED <<fixedVars, chatOpen>>

\* index.html: the chat toggle button and the close button
OpenChat ==
    /\ variant = "inline"
    /\ LoadSettled
    /\ ~chatOpen
    /\ chatOpen' = TRUE
    /\ last' = Event("open")
    /\ UNCHANGED <<fixedVars, closures, input, transcript, forms, nforms, timers,
                   requests, sent, hostFields, localStorage>>

CloseChat ==
    /\ variant = "inline"
    /\ LoadSettled
    /\ chatOpen
    /\ chatOpen' = FALSE
    /\ last' = Event("close")
    /\ UNCHANGED <<fixedVars, closures, input, transcript, forms, nforms, timers,
                   requests, sent, hostFields, localStorage>>

\* index.html: the page's own form is submitted and reset
SubmitPageForm ==
    /\ variant = "inline"
    /\ LoadSettled
    /\ \E id \in HostIds : hostFields[id] # <<>>
    /\ hostFields' = [id \in HostIds |-> <<>>]
    /\ last' = Event("pageform")
    /\ UNCHANGED <<fixedVars, closures, input, transcript, forms, nforms, timers,
                   requests, sent, localStorage, chatOpen>>

\* one step of either page, the server answering from the set O
Step(O) ==
    \/ RunScript
    \/ ParseDone
    \/ FireDCL
    \/ LoadComplete
    \/ \E t \in InputTexts : ClickSend(t)
    \/ \E t \in InputTexts : PressEnter(t)
    \/ \E r \in requests, o \in O : Resolve(r, o)
    \/ Tick
    \/ TimerFire
    \/ \E i \in 1..Len(forms), vals \in FieldValues : ClickSubmit(i, vals)
    \/ \E i \in 1..Len(forms), vals \in FieldValues : EnterInPhone(i, vals)
    \/ \E i \in 1..Len(forms) : ClickCancel(i)

\* the steps index.html has besides
InlineStep ==
    \/ OpenChat
    \/ CloseChat
    \/ SubmitPageForm

\* both pages, at most MaxSends requests, an ordinary conversation
Init == InitWith(MaxSends)
Next == Step(PlainOutcomes) \/ InlineStep
Spec == Init /\ [][Next]_vars

\* the same with a server that answers in every shape
NextReplies == Step(AllOutcomes) \/ InlineStep
SpecReplies == Init /\ [][NextReplies]_vars

\* the page with js.js and one request more: two overlays can be open when
\* a third request is made from one of them
InitOverlays == InitWith(MaxSends + 1) /\ variant = "script"
NextOverlays == Step(PlainOutcomes)
SpecOverlays == InitOverlays /\ [][NextOverlays]_vars

\* ================================================================ claims
Last(seq) == seq[Len(seq)]
IsBlankText(s) == \A i \in 1..Len(s) : s[i] \in WhiteSpace
FormWithId(fs, id) == fs[CHOOSE i \in 1..Len(fs) : fs[i].id = id]
SubmitOps == {"submit", "enterphone"}

\* C1: a send attempt with an empty or white-space-only text (the send
\* button, Enter, or a call of sendMessage by an overlay handler) appends
\* nothing to the transcript and issues no request, in both variants.
C1_BlankSendIgnored ==
    [][ ( \/ /\ last'.op \in {"click", "enter"}
             /\ IsBlankText(last'.text)
          \/ /\ last'.op \in SubmitOps \cup {"cancel"}
             /\ last'.calls # <<>>
             /\ \A k \in 1..Len(last'.calls) : IsBlankText(last'.calls[k]) )
        => /\ transcript' = transcript
           /\ requests' = requests
           /\ sent' = sent ]_vars

\* a white-space-only text is submitted while an earlier request is in flight
C1_Witness ==
    /\ last.op = "click"
    /\ last.text = <<SP>>
    /\ requests # {}
    /\ Len(transcript) = 2

\* C2 as stated: submitting an overlay whose phone input is non-empty removes
\* the overlay, makes the contact data the entered values, and appends and
\* sends exactly one user message that contains the phone value.
C2_Original ==
    [][ (last'.op \in SubmitOps /\ last'.own.phone # <<>>)
        => LET f == FormWithId(forms, last'.form)
               e == last'.own
           IN /\ ~HasForm(forms', f.id)
              /\ closures'[f.closure].userData =
                   [name |-> JSString(e.name), phone |-> JSString(e.phone),
                    email |-> JSString(e.email)]
              /\ Len(transcript') = Len(transcript) + 1
              /\ Last(transcript').origin = "user"
              /\ IncludesStr(Last(transcript').content, e.phone)
              /\ Len(sent') = Len(sent) + 1
              /\ Cardinality(requests') = Cardinality(requests) + 1 ]_vars

\* C3: when the request of a user message fails (the fetch rejects or the
\* body is no JSON), exactly one fixed apology is appended as the assistant's
\* turn for that request, the user's message is in the transcript exactly
\* once and nothing else in the transcript changes, in both variants.
Apology == IF variant = "script" THEN ERR_LATER ELSE ERR_AGAIN
C3_FailureOneApology ==
    [][ (last'.op = "settle" /\ last'.outcome.kind \in {"reject", "badjson"})
        => /\ transcript' = Append(transcript, Msg("assistant", Apology, last'.req))
           /\ Cardinality({i \in 1..Len(transcript') :
                             /\ transcript'[i].origin = "user"
                             /\ transcript'[i].req = last'.req}) = 1 ]_vars

\* a body that is no JSON arrives while another request is still in flight
C3_Witness ==
    /\ last.op = "settle"
    /\ last.outcome.kind = "badjson"
    /\ requests # {}
    /\ Last(transcript).content = Apology

\* the text of a reply in one of the two supported shapes
HasReplyText(o) ==
    /\ o.kind = "json"
    /\ ~o.isNull
    /\ o.response.t = "string" \/ (o.response.t = "object" /\ o.response.hasText)
ReplyText(o) == o.response.s

\* C4 as stated: for a reply that contains the sentinel, once or more, the
\* message shown contains no sentinel, and the overlay is shown when the 500 ms
\* have elapsed and not before.
C4_Original ==
    [][ /\ ( /\ variant = "script"
             /\ last'.op = "settle"
             /\ HasReplyText(last'.outcome)
             /\ Includes(ReplyText(last'.outcome), SENTINEL) )
           => /\ Len(transcript') = Len(transcript) + 1
              /\ ~Includes(Last(transcript').content, SENTINEL)
              /\ forms' = forms
              /\ \E c \in 1..Len(closures) :
                   timers' = Append(timers, [closure |-> c, left |-> FORM_DELAY])
        /\ Len(forms') > Len(forms)
           => /\ timers # <<>>
              /\ Head(timers).left = 0
              /\ timers' = Tail(timers) ]_vars

\* C5 as stated: for a response {response: X}, X a string, the assistant
\* message appended is X with every newline replaced by a line break.
C5_Original ==
    [][ ( /\ variant = "script"
          /\ last'.op = "settle"
          /\ last'.outcome.kind = "json"
          /\ ~last'.outcome.isNull
          /\ last'.outcome.response.t = "string" )
        => transcript' =
             Append(transcript,
                    Msg("assistant", ReplaceAllNL(last'.outcome.response.s),
                        last'.req)) ]_vars

\* C6 as stated: for a response {response: {text: X}}, X a string, the
\* assistant message rendered is X, in both variants.
C6_Original ==
    [][ ( /\ last'.op = "settle"
          /\ last'.outcome.kind = "json"
          /\ ~last'.outcome.isNull
          /\ last'.outcome.response.t = "object"
          /\ last'.outcome.response.hasText )
        => transcript' =
             Append(transcript,
                    Msg("assistant", last'.outcome.response.s, last'.req)) ]_vars

\* C7 as stated: for a parsed body of any other shape the assistant's turn is
\* a fixed error message, in both variants.
FixedErrors == {ERR_FORMAT, ERR_LATER, ERR_AGAIN}
C7_Original ==
    [][ ( /\ last'.op = "settle"
          /\ last'.outcome.kind = "json"
          /\ ~HasReplyText(last'.outcome) )
        => /\ Len(transcript') = Len(transcript) + 1
           /\ Last(transcript').origin = "assistant"
           /\ Last(transcript').content \in FixedErrors ]_vars

\* C8 as stated: submitting an overlay whose phone input is empty leaves the
\* overlay, the contact data, the transcript and the host page's inputs as
\* they are and issues no request.
C8_Original ==
    [][ (last'.op \in SubmitOps /\ last'.own.phone = <<>>)
        => /\ forms' = forms
           /\ closures' = closures
           /\ transcript' = transcript
           /\ hostFields' = hostFields
           /\ requests' = requests
           /\ sent' = sent ]_vars

\* C9 as stated: without a container initChat registers no handler, issues
\* no request and adds no element of any kind to the document.
C9_Original ==
    (variant = "script" /\ ~containerPresent)
    => /\ styles = 0
       /\ blocks = 0
       /\ clickHandlers = <<>>
       /\ keyHandlers = <<>>
       /\ sent = <<>>

\* C9, amended: without a container every run of initChat appends one style
\* element to the head and nothing else: no chat block, no handler, no
\* request, no transcript.
C9_OnlyStyleAdded ==
    (variant = "script" /\ ~containerPresent)
    => /\ styles = initRuns
       /\ blocks = 0
       /\ closures = <<>>
       /\ clickHandlers = <<>>
       /\ keyHandlers = <<>>
       /\ transcript = <<>>
       /\ forms = <<>>
       /\ timers = <<>>
       /\ sent = <<>>

\* initChat has run, twice, on a page without the container
C9_Witness ==
    /\ variant = "script"
    /\ ~containerPresent
    /\ initRuns = 2
    /\ readyState = "complete"

\* C10: within one page load every request carries the same session_id,
\* whatever the sends, overlay submits and overlay cancels, and whatever
\* readyState was when js.js started.
C10_OneSessionId ==
    Cardinality({sent[i].session_id : i \in 1..Len(sent)}) <= 1

\* initChat has run twice with different session ids, and a message typed by
\* the visitor and one sent from an overlay have both gone out
C10_Witness ==
    /\ blocks = 2
    /\ closures[1].sessionId # closures[2].sessionId
    /\ Len(sent) = 2
    /\ last.op \in SubmitOps \cup {"cancel"}

\* C11: pressing Cancel on an open overlay removes that overlay and no other,
\* appends exactly one user message with the fixed refusal text, sends exactly
\* one request carrying it, and leaves the contact data and the host page's
\* inputs as they are.
C11_CancelSendsRefusal ==
    [][ last'.op = "cancel"
        => \E r \in requests' \ requests :
             /\ forms' = RemoveForm(forms, last'.form)
             /\ Len(forms') = Len(forms) - 1
             /\ transcript' = Append(transcript, Msg("user", REFUSAL, r.id))
             /\ r.message = REFUSAL
             /\ requests' = requests \cup {r}
             /\ sent' = Append(sent, r)
             /\ closures' = closures
             /\ hostFields' = hostFields ]_vars

\* an overlay has been cancelled after the visitor's first message
C11_Witness ==
    /\ last.op = "cancel"
    /\ forms = <<>>
    /\ Len(sent) = 2
    /\ Last(transcript).content = REFUSAL

\* C12: the transcript is append-only in both variants: every step leaves the
\* messages it had in place, unchanged and in order, and at most adds
\* messages at the end; removing an overlay removes no message.
IsPrefix(a, b) == Len(a) <= Len(b) /\ SubSeq(b, 1, Len(a)) = a
C12_AppendOnly ==
    [][ /\ IsPrefix(transcript, transcript')
        /\ Len(forms') < Len(forms) => Len(transcript') >= Len(transcript) ]_vars

\* an overlay has been submitted and removed after a reply was shown
C12_Witness ==
    /\ last.op = "submit"
    /\ last.form = 1
    /\ forms = <<>>
    /\ Len(transcript) = 4

\* C13: requests overlap freely.  A send leaves the requests in flight as
\* they are, adds its own and appends its user message in the same step; a
\* reply or failure takes only its own request out of flight and appends one
\* assistant message for it at the end of the transcript, so the assistant
\* messages stand in the order in which the responses resolved.
C13_OverlappingRequests ==
    [][ /\ Len(sent') > Len(sent)
           => LET k == Len(sent') - Len(sent)
                  new == {sent'[Len(sent) + i] : i \in 1..k}
              IN /\ IsPrefix(sent, sent')
                 /\ requests' = requests \cup new
                 /\ new \cap requests = {}
                 /\ Cardinality(new) = k
                 /\ Len(transcript') = Len(transcript) + k
                 /\ \A i \in 1..k :
                      /\ transcript'[Len(transcript) + i].origin = "user"
                      /\ transcript'[Len(transcript) + i].req = sent'[Len(sent) + i].id
        /\ last'.op = "settle"
           => /\ \E r \in requests :
                   /\ r.id = last'.req
                   /\ requests' = requests \ {r}
              /\ sent' = sent
              /\ Len(transcript') = Len(transcript) + 1
              /\ Last(transcript').origin = "assistant"
              /\ Last(transcript').req = last'.req ]_vars

\* two messages were sent before either reply, and the reply to the second
\* stands before the reply to the first
C13_Witness ==
    /\ Len(transcript) = 5
    /\ transcript[2].origin = "user" /\ transcript[2].req = 1
    /\ transcript[3].origin = "user" /\ transcript[3].req = 2
    /\ transcript[4].origin = "assistant" /\ transcript[4].req = 2
    /\ transcript[5].origin = "assistant" /\ transcript[5].req = 1

\* C14 as stated: an overlay is created only as the consequence of an
\* assistant message whose text contains the sentinel (the delayed call is
\* scheduled by nothing else and the overlay is created by nothing but the
\* delayed call), and an open overlay leaves the transcript only through its
\* own submit with a non-empty phone or its own cancel.
C14_OpenedBySentinel ==
    /\ Len(timers') > Len(timers)
       => /\ last'.op = "settle"
          /\ HasReplyText(last'.outcome)
          /\ Includes(ReplyText(last'.outcome), SENTINEL)
          /\ Last(transcript').origin = "assistant"
    /\ nforms' > nforms
       => /\ last'.op = "timer"
          /\ timers # <<>>
          /\ timers' = Tail(timers)
          /\ Len(forms') = Len(forms) + 1
C14_ClosedByOwnAction ==
    \A i \in 1..Len(forms) :
       ~HasForm(forms', forms[i].id)
       => /\ last'.form = forms[i].id
          /\ \/ last'.op = "cancel"
             \/ last'.op \in SubmitOps /\ last'.own.phone # <<>>
C14_Original == [][C14_OpenedBySentinel /\ C14_ClosedByOwnAction]_vars

\* C17 as stated: at most one contact overlay is in the messages container
\* in every reachable state.
C17_Original == variant = "script" => Len(forms) <= 1

\* C15 as stated: autofill never changes the value of an input inside the
\* chat block, wherever the container stands in the host page (inside a host
\* form too) and whatever the state of the widget (another overlay open too).
C15_Original ==
    [][ last'.op \in SubmitOps => last'.filled = {} ]_vars

\* C16 as stated: whatever readyState was when js.js ran, the widget is
\* initialised at most once, and once the page has loaded there is exactly one
\* chat block in the container, one style element, one click listener on the
\* send button and one keypress listener on the input field.
C16_Original ==
    (variant = "script" /\ containerPresent)
    => /\ blocks <= 1
       /\ styles <= 1
       /\ Len(clickHandlers) <= 1
       /\ Len(keyHandlers) <= 1
       /\ (scriptRan /\ readyState = "complete")
          => /\ blocks = 1
             /\ styles = 1
             /\ Len(clickHandlers) = 1
             /\ Len(keyHandlers) = 1

\* C18 as stated: every click of the send button or press of Enter with a
\* non-empty text in the input field appends exactly one user message, issues
\* exactly one request and leaves the input field empty, also when initChat
\* has run twice and the listeners are registered twice.
C18_OneSend ==
    /\ Len(transcript') = Len(transcript) + 1
    /\ Last(transcript').origin = "user"
    /\ Len(sent') = Len(sent) + 1
    /\ Last(sent') \notin requests
    /\ requests' = requests \cup {Last(sent')}
    /\ Last(transcript').req = Last(sent').id
    /\ input' = <<>>
====
